---- MODULE Spec2Model ----
(***************************************************************************)
(* Scripts/check_for_cuda.py: a diagnostic script that queries the CUDA    *)
(* runtime through torch.cuda inside one try block and prints status       *)
(* lines; an `except Exception` handler prints the failure line.           *)
(*                                                                         *)
(* The runtime (torch.cuda) is the environment: its state is the record rt *)
(* (current-device selector, device count, availability flag, and which    *)
(* step raises what).  One action per statement of the script.             *)
(***************************************************************************)
EXTENDS Integers, Sequences, FiniteSets, TLC

VARIABLES rt, rt_before, pc, ns, raised, fault, out, calls, sel_writes, run, prev_out

vars == <<rt, rt_before, pc, ns, raised, fault, out, calls, sel_writes, run, prev_out>>

(* ------------------------------ bounds -------------------------------- *)

\* largest value of the runtime's current-device selector
MaxIndex == 1
\* largest number of visible devices
MaxCount == 2
\* number of successive invocations of the script against the same runtime
MaxRuns == 2

(* ------------------------- exceptions (Python) ------------------------ *)

\* no exception in flight
NoExc == [cls |-> "None", args |-> <<>>]

\* Classes that derive from BaseException but not from Exception.
BaseExceptionOnly == {"KeyboardInterrupt", "SystemExit", "GeneratorExit"}

\* What a step of the sequence can raise: exception instances (class, args).
Exceptions ==
    { [cls |-> "ModuleNotFoundError", args |-> <<"No module named 'torch'">>],
      [cls |-> "RuntimeError", args |-> <<"No CUDA GPUs are available">>],
      [cls |-> "AssertionError", args |-> <<>>],
      [cls |-> "ValueError", args |-> <<"bad", "device">>],
      [cls |-> "KeyboardInterrupt", args |-> <<>>],
      [cls |-> "SystemExit", args |-> <<"1">>] }

\* get_device_name(i) of the runtime with i outside 0..count-1
InvalidDeviceId == [cls |-> "AssertionError", args |-> <<"Invalid device id">>]

AllExceptions == Exceptions \cup {InvalidDeviceId}

\* repr() of a str argument, as it appears inside the repr of a tuple
Repr(s) == "'" \o s \o "'"

RECURSIVE ReprItems(_)
ReprItems(a) ==
    IF Len(a) = 1 THEN Repr(Head(a))
    ELSE Repr(Head(a)) \o ", " \o ReprItems(Tail(a))

\* str(ex), BaseException.__str__: "" without args, str(args[0]) with one,
\* str(args) (the tuple's repr) with more.
Str(ex) ==
    CASE Len(ex.args) = 0 -> ""
      [] Len(ex.args) = 1 -> ex.args[1]
      [] OTHER -> "(" \o ReprItems(ex.args) \o ")"

\* a mutant of Catches: a handler that names one error class only
CatchesRuntimeErrorOnly(ex) == ex.cls \in {"RuntimeError"}

\* `except Exception as ex`: isinstance(ex, Exception)
Catches(ex) == ex.cls \notin BaseExceptionOnly

(* ------------------------------ runtime ------------------------------- *)

Steps == {"import", "current_device", "device", "device_count",
          "get_device_name", "is_available"}

\* which step of an invocation raises, and what ("none": no step is made to)
FailPlans ==
    {[step |-> "none", exc |-> NoExc]}
        \cup {[step |-> s, exc |-> e] : s \in Steps, e \in Exceptions}

\* the runtime's name of device i
NameOf(i) == IF i = 0 THEN "Mock GPU" ELSE "Mock GPU " \o ToString(i)

Runtimes ==
    [current : 0..MaxIndex, count : 0..MaxCount, available : BOOLEAN,
     fail : FailPlans]

Raises(step) == rt.fail.step = step

(* --------------------------- the script ------------------------------- *)

\* a runtime call as the runtime sees it
Call(op, args, ret, ok) == [op |-> op, args |-> args, ret |-> ret, ok |-> ok]

\* leave the try block with ex raised by step
Raise(step, ex) ==
    /\ raised' = ex
    /\ fault' = [step |-> step, exc |-> ex]
    /\ pc' = "except"

\* f"{n}" of an int
FmtInt(n) == ToString(n)

Init ==
    /\ rt \in Runtimes
    /\ rt_before = rt
    /\ pc = "import"
    /\ ns = <<>>
    /\ raised = NoExc
    /\ fault = [step |-> "none", exc |-> NoExc]
    /\ out = <<>>
    /\ calls = <<>>
    /\ sel_writes = 0
    /\ run = 1
    /\ prev_out = <<>>

\* line 4: import torch
ImportTorch ==
    /\ pc = "import"
    /\ IF Raises("import")
       THEN Raise("import", rt.fail.exc)
       ELSE pc' = "current_device" /\ UNCHANGED <<raised, fault>>
    /\ UNCHANGED <<rt, rt_before, ns, out, calls, sel_writes, run, prev_out>>

\* line 6: device_id = torch.cuda.current_device()
CurrentDevice ==
    /\ pc = "current_device"
    /\ IF Raises("current_device")
       THEN /\ Raise("current_device", rt.fail.exc)
            /\ calls' = Append(calls, Call("current_device", <<>>, <<>>, FALSE))
            /\ ns' = ns
       ELSE /\ ns' = ns @@ ("device_id" :> rt.current)
            /\ calls' = Append(calls, Call("current_device", <<>>, <<rt.current>>, TRUE))
            /\ pc' = "print_device_id"
            /\ UNCHANGED <<raised, fault>>
    /\ UNCHANGED <<rt, rt_before, out, sel_writes, run, prev_out>>

\* line 7: print(f"Current device id {device_id}")
PrintDeviceId ==
    /\ pc = "print_device_id"
    /\ out' = Append(out, "Current device id " \o FmtInt(ns["device_id"]))
    /\ pc' = "device"
    /\ UNCHANGED <<rt, rt_before, ns, raised, fault, calls, sel_writes, run, prev_out>>

\* a mutant of Device: the literal 0 is passed instead of device_id
DeviceLiteralZero ==
    /\ pc = "device"
    /\ IF Raises("device")
       THEN /\ Raise("device", rt.fail.exc)
            /\ calls' = Append(calls, Call("device", <<0>>, <<>>, FALSE))
       ELSE /\ calls' = Append(calls, Call("device", <<0>>, <<>>, TRUE))
            /\ pc' = "device_count"
            /\ UNCHANGED <<raised, fault>>
    /\ UNCHANGED <<rt, rt_before, ns, out, sel_writes, run, prev_out>>

\* a mutant of Device: the call selects the device after device_id
DeviceSelectsNext ==
    /\ pc = "device"
    /\ IF Raises("device")
       THEN /\ Raise("device", rt.fail.exc)
            /\ calls' = Append(calls, Call("device", <<ns["device_id"]>>, <<>>, FALSE))
            /\ UNCHANGED <<rt, sel_writes>>
       ELSE /\ calls' = Append(calls, Call("device", <<ns["device_id"]>>, <<>>, TRUE))
            /\ rt' = [rt EXCEPT !.current = (ns["device_id"] + 1) % (MaxIndex + 1)]
            /\ sel_writes' = sel_writes + 1
            /\ pc' = "device_count"
            /\ UNCHANGED <<raised, fault>>
    /\ UNCHANGED <<rt_before, ns, out, run, prev_out>>

\* lines 9-10: "# set the working device" / torch.cuda.device(device_id)
\* The call constructs a torch.cuda.device context-manager object from
\* device_id; the object is dropped without being entered (no `with`), so
\* the runtime's selector is not written.
Device ==
    /\ pc = "device"
    /\ IF Raises("device")
       THEN /\ Raise("device", rt.fail.exc)
            /\ calls' = Append(calls, Call("device", <<ns["device_id"]>>, <<>>, FALSE))
       ELSE /\ calls' = Append(calls, Call("device", <<ns["device_id"]>>, <<>>, TRUE))
            /\ pc' = "device_count"
            /\ UNCHANGED <<raised, fault>>
    /\ UNCHANGED <<rt, rt_before, ns, out, sel_writes, run, prev_out>>

\* line 12: device_count = torch.cuda.device_count()
DeviceCount ==
    /\ pc = "device_count"
    /\ IF Raises("device_count")
       THEN /\ Raise("device_count", rt.fail.exc)
            /\ calls' = Append(calls, Call("device_count", <<>>, <<>>, FALSE))
            /\ ns' = ns
       ELSE /\ ns' = ns @@ ("device_count" :> rt.count)
            /\ calls' = Append(calls, Call("device_count", <<>>, <<rt.count>>, TRUE))
            /\ pc' = "print_device_count"
            /\ UNCHANGED <<raised, fault>>
    /\ UNCHANGED <<rt, rt_before, out, sel_writes, run, prev_out>>

\* a mutant of PrintDeviceCount: the device id is printed as the count
PrintDeviceCountPrintsId ==
    /\ pc = "print_device_count"
    /\ out' = Append(out, "Total number of available-cuda GPUs "
                            \o FmtInt(ns["device_id"]))
    /\ pc' = "get_device_name"
    /\ UNCHANGED <<rt, rt_before, ns, raised, fault, calls, sel_writes, run, prev_out>>

\* line 13: print(f"Total number of available-cuda GPUs {device_count}")
PrintDeviceCount ==
    /\ pc = "print_device_count"
    /\ out' = Append(out, "Total number of available-cuda GPUs "
                            \o FmtInt(ns["device_count"]))
    /\ pc' = "get_device_name"
    /\ UNCHANGED <<rt, rt_before, ns, raised, fault, calls, sel_writes, run, prev_out>>

\* the runtime's get_device_name(i): the plan's error, or an error of its
\* own for an index that names no device, or the name
GetDeviceNameOf(i) ==
    /\ pc = "get_device_name"
    /\ IF Raises("get_device_name")
       THEN /\ Raise("get_device_name", rt.fail.exc)
            /\ calls' = Append(calls, Call("get_device_name", <<i>>, <<>>, FALSE))
            /\ ns' = ns
       ELSE IF i < 0 \/ i >= rt.count
       THEN /\ Raise("get_device_name", InvalidDeviceId)
            /\ calls' = Append(calls, Call("get_device_name", <<i>>, <<>>, FALSE))
            /\ ns' = ns
       ELSE /\ ns' = ns @@ ("device_name" :> NameOf(i))
            /\ calls' = Append(calls, Call("get_device_name", <<i>>, <<NameOf(i)>>, TRUE))
            /\ pc' = "print_device_name"
            /\ UNCHANGED <<raised, fault>>
    /\ UNCHANGED <<rt, rt_before, out, sel_writes, run, prev_out>>

\* a mutant of GetDeviceName: the last device (count - 1) is asked for
GetDeviceNameByCount == GetDeviceNameOf(ns["device_count"] - 1)

\* line 15: device_name = torch.cuda.get_device_name(device_id)
GetDeviceName == GetDeviceNameOf(ns["device_id"])

\* line 16: print(f"The name of the current device {device_name}")
PrintDeviceName ==
    /\ pc = "print_device_name"
    /\ out' = Append(out, "The name of the current device " \o ns["device_name"])
    /\ pc' = "is_available"
    /\ UNCHANGED <<rt, rt_before, ns, raised, fault, calls, sel_writes, run, prev_out>>

\* a mutant of IsAvailable: an unavailable runtime is treated as a failure
IsAvailableRaisesWhenFalse ==
    /\ pc = "is_available"
    /\ IF Raises("is_available")
       THEN /\ Raise("is_available", rt.fail.exc)
            /\ calls' = Append(calls, Call("is_available", <<>>, <<>>, FALSE))
       ELSE IF ~rt.available
       THEN /\ Raise("is_available",
                     [cls |-> "RuntimeError", args |-> <<"No CUDA GPUs are available">>])
            /\ calls' = Append(calls, Call("is_available", <<>>, <<>>, FALSE))
       ELSE /\ calls' = Append(calls, Call("is_available", <<>>, <<rt.available>>, TRUE))
            /\ pc' = "print_success"
            /\ UNCHANGED <<raised, fault>>
    /\ UNCHANGED <<rt, rt_before, ns, out, sel_writes, run, prev_out>>

\* line 19: if torch.cuda.is_available():
IsAvailable ==
    /\ pc = "is_available"
    /\ IF Raises("is_available")
       THEN /\ Raise("is_available", rt.fail.exc)
            /\ calls' = Append(calls, Call("is_available", <<>>, <<>>, FALSE))
       ELSE /\ calls' = Append(calls, Call("is_available", <<>>, <<rt.available>>, TRUE))
            /\ pc' = IF rt.available THEN "print_success" ELSE "print_error"
            /\ UNCHANGED <<raised, fault>>
    /\ UNCHANGED <<rt, rt_before, ns, out, sel_writes, run, prev_out>>

\* a mutant of PrintSuccess: the else is lost and control falls into line 22
PrintSuccessFallsThrough ==
    /\ pc = "print_success"
    /\ out' = Append(out, "Success")
    /\ pc' = "print_error"
    /\ UNCHANGED <<rt, rt_before, ns, raised, fault, calls, sel_writes, run, prev_out>>

\* line 20: print("Success")
PrintSuccess ==
    /\ pc = "print_success"
    /\ out' = Append(out, "Success")
    /\ pc' = "done"
    /\ UNCHANGED <<rt, rt_before, ns, raised, fault, calls, sel_writes, run, prev_out>>

\* lines 21-22: else: print("Error")
PrintError ==
    /\ pc = "print_error"
    /\ out' = Append(out, "Error")
    /\ pc' = "done"
    /\ UNCHANGED <<rt, rt_before, ns, raised, fault, calls, sel_writes, run, prev_out>>

\* a mutant of ExceptHandler: the error's class name is printed, not str(ex)
ExceptHandlerPrintsClass ==
    /\ pc = "except"
    /\ Catches(raised)
    /\ out' = Append(out, "Cuda is not properly installed: " \o raised.cls)
    /\ raised' = NoExc
    /\ pc' = "done"
    /\ UNCHANGED <<rt, rt_before, ns, fault, calls, sel_writes, run, prev_out>>

\* a mutant of ExceptHandler: the lines printed before the failure are lost
ExceptHandlerDropsPartial ==
    /\ pc = "except"
    /\ Catches(raised)
    /\ out' = <<"Cuda is not properly installed: " \o Str(raised)>>
    /\ raised' = NoExc
    /\ pc' = "done"
    /\ UNCHANGED <<rt, rt_before, ns, fault, calls, sel_writes, run, prev_out>>

\* lines 23-24: except Exception as ex:
\*                  print("Cuda is not properly installed: " + str(ex))
ExceptHandler ==
    /\ pc = "except"
    /\ Catches(raised)
    /\ out' = Append(out, "Cuda is not properly installed: " \o Str(raised))
    /\ raised' = NoExc
    /\ pc' = "done"
    /\ UNCHANGED <<rt, rt_before, ns, fault, calls, sel_writes, run, prev_out>>

\* line 23, no match: the exception leaves the module uncaught; the
\* interpreter ends the process with it (traceback, non-zero exit status).
Propagate ==
    /\ pc = "except"
    /\ ~Catches(raised)
    /\ pc' = "crashed"
    /\ UNCHANGED <<rt, rt_before, ns, raised, fault, out, calls, sel_writes, run, prev_out>>

\* the process has ended: normally, or with an uncaught exception
Finished == pc \in {"done", "crashed"}

\* the script is run again (a new process) against the same runtime
Invoke ==
    /\ Finished
    /\ run < MaxRuns
    /\ run' = run + 1
    /\ prev_out' = out
    /\ rt_before' = rt
    /\ pc' = "import"
    /\ ns' = <<>>
    /\ raised' = NoExc
    /\ fault' = [step |-> "none", exc |-> NoExc]
    /\ out' = <<>>
    /\ calls' = <<>>
    /\ sel_writes' = 0
    /\ UNCHANGED rt

Next ==
    \/ ImportTorch
    \/ CurrentDevice
    \/ PrintDeviceId
    \/ Device
    \/ DeviceCount
    \/ PrintDeviceCount
    \/ GetDeviceName
    \/ PrintDeviceName
    \/ IsAvailable
    \/ PrintSuccess
    \/ PrintError
    \/ ExceptHandler
    \/ Propagate
    \/ Invoke

Spec == Init /\ [][Next]_vars

(* ---------------------- vocabulary of the claims ---------------------- *)

\* no step of this invocation has raised
NoFault == fault.step = "none"

\* the runtime is set to fail nowhere: no planned error, and the selected
\* device exists
CleanRuntime == rt.fail.step = "none" /\ rt.current < rt.count

\* the error is an instance of Exception (not a bare BaseException)
DerivesFromException(e) ==
    e.cls \notin {"KeyboardInterrupt", "SystemExit", "GeneratorExit"}

\* what the runtime returned to the (one) call of op in this invocation
ReturnOf(op) ==
    LET i == CHOOSE j \in 1..Len(calls) : calls[j].op = op
    IN  calls[i].ret[1]

IdLine(i) == "Current device id " \o ToString(i)
CountLine(n) == "Total number of available-cuda GPUs " \o ToString(n)
NameLine(s) == "The name of the current device " \o s
FailureLine(e) == "Cuda is not properly installed: " \o Str(e)

IsFailureLine(l) == l \in {FailureLine(e) : e \in AllExceptions}
IsVerdictLine(l) == l \in {"Success", "Error"} \/ IsFailureLine(l)

\* the steps in program order; the runtime operations are all but the first
StepOrder == <<"import", "current_device", "device", "device_count",
               "get_device_name", "is_available">>
Pos(step) == CHOOSE i \in 1..Len(StepOrder) : StepOrder[i] = step
OpOrder == Tail(StepOrder)

\* the status lines of the steps that complete before `step`
StatusBefore(step) ==
    CASE step \in {"import", "current_device"} -> <<>>
      [] step \in {"device", "device_count"} ->
            <<IdLine(ReturnOf("current_device"))>>
      [] step = "get_device_name" ->
            <<IdLine(ReturnOf("current_device")),
              CountLine(ReturnOf("device_count"))>>
      [] OTHER ->
            <<IdLine(ReturnOf("current_device")),
              CountLine(ReturnOf("device_count")),
              NameLine(ReturnOf("get_device_name"))>>

(* ------------------------------- claims ------------------------------- *)

\* C1: a run in which no step raises prints exactly four lines, in order:
\* the id, count and name lines with the values the runtime returned in that
\* run, then Success if the availability flag is true, Error if it is false.
C1_HappyPathOutput ==
    (pc = "done" /\ NoFault) =>
        out = <<IdLine(ReturnOf("current_device")),
                CountLine(ReturnOf("device_count")),
                NameLine(ReturnOf("get_device_name")),
                IF ReturnOf("is_available") THEN "Success" ELSE "Error">>

C1_Witness ==
    /\ pc = "done" /\ NoFault /\ rt.available
    /\ rt.current = 1 /\ rt.count = 2
    /\ out = <<"Current device id 1", "Total number of available-cuda GPUs 2",
               "The name of the current device Mock GPU 1", "Success">>

\* the body of C2: after a failed run, the steps after the failing one were
\* not performed, and the output ends with the one failure line, which
\* carries str(error)
FailureReported ==
    /\ Len(calls) = Pos(fault.step) - 1
    /\ Len(out) >= 1
    /\ out[Len(out)] = FailureLine(fault.exc)
    /\ Cardinality({i \in 1..Len(out) : IsFailureLine(out[i])}) = 1

\* C2 (as stated): whichever step raises and whatever the kind of the error,
\* the remaining steps are skipped and exactly one failure line, carrying the
\* error's text, ends the output.
C2_AnyErrorReported == (Finished /\ ~NoFault) => FailureReported

\* C2 (amended): the same, for every error that is an instance of Exception.
C2_ExceptionReported ==
    (Finished /\ ~NoFault /\ DerivesFromException(fault.exc)) => FailureReported

C2_Witness ==
    /\ pc = "done"
    /\ fault = [step |-> "device_count",
                exc |-> [cls |-> "ValueError", args |-> <<"bad", "device">>]]
    /\ out[Len(out)] = "Cuda is not properly installed: ('bad', 'device')"

\* the body of C3: the output is the status lines of the completed steps,
\* then the failure line; no Success/Error line
PartialOutputThenFailure ==
    /\ out = StatusBefore(fault.step) \o <<FailureLine(fault.exc)>>
    /\ \A i \in 1..Len(out) : out[i] \notin {"Success", "Error"}

\* C3 (as stated): when a step fails, the output is exactly the status lines
\* of the steps completed before it, in order, followed by the failure line.
C3_AnyFailurePartialOutput == (Finished /\ ~NoFault) => PartialOutputThenFailure

\* C3 (amended): the same, when the step fails with an instance of Exception.
C3_ExceptionPartialOutput ==
    (Finished /\ ~NoFault /\ DerivesFromException(fault.exc))
        => PartialOutputThenFailure

C3_Witness ==
    /\ pc = "done"
    /\ fault = [step |-> "get_device_name", exc |-> InvalidDeviceId]
    /\ out = <<"Current device id 0", "Total number of available-cuda GPUs 0",
               "Cuda is not properly installed: Invalid device id">>

\* C4: when every query succeeds and the availability flag is false, the
\* run is not a failure: three status lines, then Error, and no failure
\* line.
C4_UnavailableIsNotFailure ==
    (Finished /\ CleanRuntime /\ ~rt.available) =>
        /\ pc = "done"
        /\ NoFault
        /\ Len(out) = 4
        /\ SubSeq(out, 1, 3) = <<IdLine(rt.current), CountLine(rt.count),
                                 NameLine(NameOf(rt.current))>>
        /\ out[4] = "Error"
        /\ \A i \in 1..Len(out) : ~IsFailureLine(out[i])

C4_Witness ==
    /\ pc = "done" /\ CleanRuntime /\ ~rt.available
    /\ out = <<"Current device id 0", "Total number of available-cuda GPUs 1",
               "The name of the current device Mock GPU", "Error">>

\* C5 (as stated): whatever any step raises, nothing escapes: every run ends
\* normally, with no exception in flight.
C5_NothingEscapes == Finished => (pc = "done" /\ raised = NoExc)

\* C5 (amended): every error that is an instance of Exception is caught:
\* such a run ends normally with no exception in flight; an error escapes
\* only if it is not an instance of Exception.
C5_ExceptionsCaught ==
    /\ (Finished /\ DerivesFromException(fault.exc))
            => (pc = "done" /\ raised = NoExc)
    /\ pc = "crashed" => (raised = fault.exc /\ ~DerivesFromException(raised))

C5_Witness ==
    /\ pc = "done"
    /\ fault.step = "import"
    /\ fault.exc.cls = "ModuleNotFoundError"
    /\ raised = NoExc

\* C6: the set-device call (line 10) is made only right after a
\* current-device query that returned, and with the index that query
\* returned.
C6_SetDeviceGetsQueriedIndex ==
    \A i \in 1..Len(calls) :
        calls[i].op = "device" =>
            /\ i > 1
            /\ calls[i - 1].op = "current_device"
            /\ calls[i - 1].ok
            /\ calls[i].args = calls[i - 1].ret

C6_Witness ==
    \E i \in 1..Len(calls) :
        calls[i].op = "device" /\ calls[i].args = <<1>> /\ rt.current = 1

\* C7: a second invocation against the same runtime prints what the first
\* printed.
C7_SecondRunSameOutput == (run >= 2 /\ Finished) => out = prev_out

C7_Witness ==
    /\ run = 2 /\ pc = "done" /\ Len(out) = 4 /\ rt.current = 1

\* C8: a complete run reads the selector once and writes it once, and after
\* any run the runtime's state is what it was before the run.
C8_SelectorReadOnceWrittenOnce ==
    /\ Finished => rt = rt_before
    /\ (pc = "done" /\ NoFault) =>
        /\ Cardinality({i \in 1..Len(calls) : calls[i].op = "current_device"}) = 1
        /\ sel_writes = 1

\* C9: the runtime operations are invoked in program order, each at most
\* once, each only after all earlier ones returned; the set-device call and
\* the name query get the index the first query returned.
C9_CallOrder ==
    /\ Len(calls) <= Len(OpOrder)
    /\ \A i \in 1..Len(calls) :
        /\ calls[i].op = OpOrder[i]
        /\ i < Len(calls) => calls[i].ok
        /\ calls[i].op \in {"device", "get_device_name"}
                => calls[i].args = calls[1].ret
        /\ calls[i].op \notin {"device", "get_device_name"}
                => calls[i].args = <<>>

C9_Witness ==
    /\ Len(calls) = 5
    /\ calls[4].args = <<1>>
    /\ rt.count = 2

\* the body of C10: one verdict line, the last of one to four lines;
\* Success/Error only after the three status lines
OneVerdictLast ==
    /\ Len(out) \in 1..4
    /\ IsVerdictLine(out[Len(out)])
    /\ Cardinality({i \in 1..Len(out) : IsVerdictLine(out[i])}) = 1
    /\ out[Len(out)] \in {"Success", "Error"} =>
        /\ Len(out) = 4
        /\ out[1] \in {IdLine(i) : i \in 0..MaxIndex}
        /\ out[2] \in {CountLine(n) : n \in 0..MaxCount}
        /\ out[3] \in {NameLine(NameOf(i)) : i \in 0..MaxIndex}

\* C10 (as stated): every run prints exactly one verdict line, as its last
\* line.
C10_EveryRunOneVerdict == Finished => OneVerdictLast

\* C10 (amended): every run in which no step raises an error that is not an
\* instance of Exception prints exactly one verdict line, as its last line.
C10_OneVerdictUnlessEscaped ==
    (Finished /\ DerivesFromException(fault.exc)) => OneVerdictLast

C10_Witness ==
    /\ pc = "done" /\ Len(out) = 4 /\ out[4] = "Success"
    /\ ~IsVerdictLine(out[3])

====
